---- MODULE Spec2Model ----
(***************************************************************************)
(* Model of the caching layer of cmlkit: the DiskCache strategy            *)
(* (cmlkit/engine/cache/disk.py), the .npz artifact format                 *)
(* (cmlkit/engine/data/data.py), the cache registry                        *)
(* (cmlkit/engine/cache/caches.py) and the bounded in-memory cache of      *)
(* mbtr/cached_mbtr.py.                                                    *)
(*                                                                         *)
(* Strings are sequences of tokens; the token "/" is the path separator    *)
(* and the separator of archive member names.  A filesystem path is the    *)
(* sequence of its segments, each segment a string.                        *)
(***************************************************************************)
EXTENDS Integers, Sequences, FiniteSets, TLC

VARIABLES
    dirs,       \* the directories that exist on disk (set of paths)
    disk,       \* content of every candidate artifact file
    lastOp,     \* the most recent DiskCache call and its outcome
    stored,     \* per key: the artifact of the last store that completed
    caches,     \* Caches.caches, the registry list
    lastReg,    \* the most recent Caches.register call and its outcome
    calls,      \* every register call so far, with what it returned
    env,        \* the CML_CACHE_SIZE environment setting
    memo,       \* the memo table of the in-memory cache, least recent first
    invoked,    \* how many times the wrapped function itself has run
    argLog,     \* argument tuple of every call of the cached function
    lastCall,   \* the most recent call of the cached function
    lastDataset, \* the most recent Dataset.from_dict call and its outcome
    wpc,        \* where the storing process is within store
    wdata,      \* the artifact the storing process stores
    wlinked,    \* whether the file the storing process has open is at its path
    rpc,        \* where the reading process is within try_retrieve
    rresult,    \* what try_retrieve gave the reading process
    rdeleted    \* the content of the file try_retrieve unlinked, if it did

diskVars == <<dirs, disk, lastOp, stored>>
regVars == <<caches, lastReg, calls>>
memVars == <<env, memo, invoked, argLog, lastCall>>
dsVars == <<lastDataset>>
raceVars == <<wpc, wdata, wlinked, rpc, rresult, rdeleted>>
vars == <<dirs, disk, lastOp, stored, caches, lastReg, calls,
          env, memo, invoked, argLog, lastCall, lastDataset,
          wpc, wdata, wlinked, rpc, rresult, rdeleted>>

----------------------------------------------------------------------------
(* Strings and paths *)

RECURSIVE SplitFrom(_, _, _)
SplitFrom(s, sep, cur) ==
    IF s = <<>> THEN <<cur>>
    ELSE IF Head(s) = sep THEN <<cur>> \o SplitFrom(Tail(s), sep, <<>>)
    ELSE SplitFrom(Tail(s), sep, Append(cur, Head(s)))

\* Python's str.split(sep)
Split(s, sep) == SplitFrom(s, sep, <<>>)

\* pathlib's `base / rel` for a relative string: the segments of rel are
\* appended, empty and "." segments being dropped by pathlib's normalisation
PathJoin(base, rel) ==
    base \o SelectSeq(Split(rel, "/"), LAMBDA seg : seg # <<>> /\ seg # <<".">>)

Parent(path) == SubSeq(path, 1, Len(path) - 1)

\* a path and all its ancestors, the root <<>> included
Ancestors(path) == {SubSeq(path, 1, n) : n \in 0..Len(path)}

None == [t |-> "None"]
Bool(b) == [t |-> "bool", b |-> b]

----------------------------------------------------------------------------
(* Artifacts and the .npz format (data.py) *)

FieldNames == {<<"x">>, <<"x", "/", "y">>}
FieldValues == {1}
InfoValues == {"i0", "i1"}
Histories == {<<"data@h0">>, <<"data@h0", "c@h1">>}

\* Data.data: an insertion-ordered dict, as the sequence of its items
DataDicts == {<<>>} \cup {<< <<n, v>> >> : n \in FieldNames, v \in FieldValues}

\* Data(data, info, meta)
Data(data, info, meta) ==
    [t |-> "Data", kind |-> <<"data">>, data |-> data, info |-> info, meta |-> meta]

Artifacts ==
    {Data(d, i, [history |-> h]) : d \in DataDicts, i \in InfoValues, h \in Histories}

DictKeys(d) == {d[i][1] : i \in 1..Len(d)}
DictGet(d, k) == d[CHOOSE i \in 1..Len(d) : d[i][1] = k][2]

\* d[k] = v on a Python dict: an existing key keeps its place
DictSet(d, k, v) ==
    IF k \in DictKeys(d)
    THEN [i \in 1..Len(d) |-> IF d[i][1] = k THEN <<k, v>> ELSE d[i]]
    ELSE Append(d, <<k, v>>)

\* == on Python dicts: same keys, same values, order ignored
DictEq(d1, d2) ==
    /\ DictKeys(d1) = DictKeys(d2)
    /\ \A k \in DictKeys(d1) : DictGet(d1, k) = DictGet(d2, k)

RECURSIVE DataMembers(_)
DataMembers(d) ==
    IF d = <<>> THEN <<>>
    ELSE << <<(<<"data", "/">> \o Head(d)[1]), Head(d)[2]>> >> \o DataMembers(Tail(d))

\* the members np.savez is given by write_data_npz
ArchiveMembers(kind, data, info, meta, protocol) ==
    << <<(<<"kind">>), kind>>, <<(<<"info">>), info>>, <<(<<"meta">>), meta>>,
       <<(<<"protocol">>), protocol>> >> \o DataMembers(data)

write_data_npz(kind, data, info, meta) ==
    [fmt |-> "npz", members |-> ArchiveMembers(kind, data, info, meta, 1)]

\* Data.dump(path, protocol=1)
dump(art) == write_data_npz(art.kind, art.data, art.info, art.meta)

RECURSIVE LoadDataFields(_, _)
LoadDataFields(members, acc) ==
    IF members = <<>> THEN acc
    ELSE LET name == Head(members)[1]
             parts == Split(name, "/")
         IN IF parts[1] = <<"data">>
            THEN LoadDataFields(Tail(members), DictSet(acc, parts[2], Head(members)[2]))
            ELSE LoadDataFields(Tail(members), acc)

\* the body of load_data_npz on an archive numpy could open
load_data_npz(members) ==
    IF DictGet(members, <<"protocol">>) # 1
    THEN [outcome |-> "raise", exc |-> "AssertionError", value |-> None]
    ELSE [outcome |-> "return", exc |-> "none",
          value |-> [t |-> "Data",
                     kind |-> DictGet(members, <<"kind">>),
                     data |-> LoadDataFields(members, <<>>),
                     info |-> DictGet(members, <<"info">>),
                     meta |-> DictGet(members, <<"meta">>)]]

\* equality in data, info and meta.history
ArtEq(a, b) ==
    /\ a.t = "Data" /\ b.t = "Data"
    /\ DictEq(a.data, b.data)
    /\ a.info = b.info
    /\ a.meta.history = b.meta.history

----------------------------------------------------------------------------
(* File contents and what np.load makes of them *)

Absent == [fmt |-> "absent"]
Garbage == [fmt |-> "garbage"]       \* bytes that are no archive at all
Empty == [fmt |-> "empty"]           \* zero bytes: end of data at once
Truncated == [fmt |-> "truncated"]   \* the head of an archive, its end cut off

\* an archive written by a writer of another format version
Foreign ==
    [fmt |-> "npz",
     members |-> ArchiveMembers(<<"data">>, <<>>, "i0", [history |-> <<"data@h0">>], 2)]

Unreadable == {Garbage, Empty, Truncated}

\* the exception classes np.load can raise on a file it cannot open as an
\* archive: a missing file is FileNotFoundError; no bytes is EOFError; bytes
\* without the archive signature go to pickle and fail as UnpicklingError
\* (OSError in older numpy); an archive signature without the archive's end
\* fails in zipfile as BadZipFile
NpLoadErrors(content) ==
    CASE content.fmt = "absent" -> {"FileNotFoundError"}
      [] content.fmt = "empty" -> {"EOFError"}
      [] content.fmt = "garbage" -> {"UnpicklingError", "OSError"}
      [] content.fmt = "truncated" -> {"BadZipFile"}
      [] OTHER -> {}

\* exception class hierarchy as far as the handlers need it
IsInstance(exc, cls) ==
    \/ exc = cls
    \/ exc = "FileNotFoundError" /\ cls = "OSError"

\* load_data(path) on a ".npz" path: every outcome it can have
LoadOutcomes(content) ==
    IF content.fmt = "npz"
    THEN {load_data_npz(content.members)}
    ELSE {[outcome |-> "raise", exc |-> e, value |-> None] : e \in NpLoadErrors(content)}

----------------------------------------------------------------------------
(* The cache registry (caches.py): pure part *)

\* Caches.location, as given to Caches(location)
RegistryLocation == << <<"c">> >>

\* component.kind is a class-level name and get_hash() a hex digest: strings
\* without a path separator.  "fg" with "h" and "f" with "gh" differ only
\* in where the separator of the key falls.
Kinds == {<<"f">>, <<"f", "g">>}
Hashes == {<<"h">>, <<"g", "h">>}

Str(s) == [t |-> "str", s |-> s]

\* the values component.context["cache"] takes
CacheConfigs ==
    {Str("no"), Str("disk"), Str("redis"), Str(""), None, Bool(FALSE)}

\* component.context: a dict with or without a "cache" item
Contexts == {<<>>} \cup {<< <<"cache", c>> >> : c \in CacheConfigs}

Components == [kind : Kinds, hash : Hashes, context : Contexts]

\* Python truth value of a configuration value
Truthy(v) ==
    CASE v.t = "str" -> v.s # ""
      [] v.t = "bool" -> v.b
      [] OTHER -> FALSE

\* component.context.get("cache", "no")
ContextGet(context, default) ==
    IF "cache" \in DictKeys(context) THEN DictGet(context, "cache") ELSE default

\* parse_config(config, shortcut_ok=True) on a string: the kind it names
parse_config(config) == config.s

\* variant of CacheKey: kind and hash joined without the separator
CacheKeyJoined(component) == component.kind \o component.hash

\* f"{component.kind}/{component.get_hash()}"
CacheKey(component) == component.kind \o <<"/">> \o component.hash

\* str(component)
Describe(component) == <<"component", component.kind, component.hash>>

\* DiskCache(location=...)
DiskCache(loc) == [t |-> "DiskCache", location |-> loc]
NoCache == [t |-> "NoCache"]

\* variant of registerOf: an unknown cache kind falls back to NoCache
registerOfLenient(component, list) ==
    LET cache_config == ContextGet(component.context, Str("no"))
        key == CacheKey(component)
        cache_kind == parse_config(cache_config)
        cache == DiskCache(PathJoin(RegistryLocation, key))
    IN IF Truthy(cache_config)
       THEN IF cache_kind = "disk"
            THEN [outcome |-> "return", exc |-> "none", value |-> cache,
                  caches |-> Append(list, <<Describe(component), key, cache>>)]
            ELSE [outcome |-> "return", exc |-> "none", value |-> NoCache,
                  caches |-> list]
       ELSE [outcome |-> "return", exc |-> "none", value |-> None, caches |-> list]

\* variant of registerOf: the newest entry is put at the front of the list
registerOfFront(component, list) ==
    LET cache_config == ContextGet(component.context, Str("no"))
        key == CacheKey(component)
        cache_kind == parse_config(cache_config)
        cache == DiskCache(PathJoin(RegistryLocation, key))
    IN IF Truthy(cache_config)
       THEN IF cache_kind = "no"
            THEN [outcome |-> "return", exc |-> "none", value |-> NoCache,
                  caches |-> list]
            ELSE IF cache_kind = "disk"
            THEN [outcome |-> "return", exc |-> "none", value |-> cache,
                  caches |-> <<(<<Describe(component), key, cache>>)>> \o list]
            ELSE [outcome |-> "raise", exc |-> "NotImplementedError", value |-> None,
                  caches |-> list]
       ELSE [outcome |-> "return", exc |-> "none", value |-> None, caches |-> list]

\* Caches.register(component): what it returns or raises, and the list after
registerOf(component, list) ==
    LET cache_config == ContextGet(component.context, Str("no"))
        key == CacheKey(component)
        cache_kind == parse_config(cache_config)
        cache == DiskCache(PathJoin(RegistryLocation, key))
    IN IF Truthy(cache_config)
       THEN IF cache_kind = "no"
            THEN [outcome |-> "return", exc |-> "none", value |-> NoCache,
                  caches |-> list]
            ELSE IF cache_kind = "disk"
            THEN [outcome |-> "return", exc |-> "none", value |-> cache,
                  caches |-> Append(list, <<Describe(component), key, cache>>)]
            ELSE [outcome |-> "raise", exc |-> "NotImplementedError", value |-> None,
                  caches |-> list]
       ELSE [outcome |-> "return", exc |-> "none", value |-> None, caches |-> list]

----------------------------------------------------------------------------
(* DiskCache (disk.py) *)

\* the cache under test: the one the registry builds for kind f, hash h
location ==
    PathJoin(RegistryLocation, CacheKey([kind |-> <<"f">>, hash |-> <<"h">>]))

\* keys: two content hashes, and a key of the registry's form kind/hash
Keys == {<<"k">>, <<"j">>, <<"f", "/", "h">>}

\* DiskCache.filename(key)
filename(key) == PathJoin(location, key \o <<".npz">>)

FilePaths == {filename(k) : k \in Keys}

\* variant of Caught: a handler that catches every exception
CaughtAll ==
    {"EOFError", "OSError", "UnpicklingError", "BadZipFile", "AssertionError"}

\* the exception classes try_retrieve catches
Caught == {"EOFError", "OSError", "UnpicklingError"}

IsCaught(exc) == \E cls \in Caught : IsInstance(exc, cls)

Op(op, key, pre, outcome, exc, value) ==
    [op |-> op, key |-> key, pre |-> pre, outcome |-> outcome, exc |-> exc,
     value |-> value]

\* DiskCache.check(key)
check(key) ==
    /\ lastOp' = Op("check", key, disk[filename(key)], "return", "none",
                    Bool(disk[filename(key)].fmt # "absent"))
    /\ UNCHANGED <<dirs, disk, stored>>

\* DiskCache.store(key, data): mkdir of the location with its parents, then
\* np.savez opens the file for writing, which needs the file's own directory
store(key, data) ==
    LET path == filename(key)
        made == dirs \cup Ancestors(location)
    IN /\ dirs' = made
       /\ IF Parent(path) \in made
          THEN /\ disk' = [disk EXCEPT ![path] = dump(data)]
               /\ stored' = [stored EXCEPT ![key] = data]
               /\ lastOp' = Op("store", key, disk[path], "return", "none", None)
          ELSE /\ lastOp' = Op("store", key, disk[path], "raise",
                               "FileNotFoundError", None)
               /\ UNCHANGED <<disk, stored>>

\* DiskCache.retrieve(key)
retrieve(key) ==
    /\ \E r \in LoadOutcomes(disk[filename(key)]) :
          lastOp' = Op("retrieve", key, disk[filename(key)], r.outcome, r.exc, r.value)
    /\ UNCHANGED <<dirs, disk, stored>>

\* DiskCache.try_retrieve(key)
try_retrieve(key) ==
    LET path == filename(key)
        pre == disk[path]
    IN \E r \in LoadOutcomes(pre) :
          IF r.outcome = "raise" /\ IsCaught(r.exc)
          THEN \* filename.unlink()
               IF pre.fmt = "absent"
               THEN /\ lastOp' = Op("try_retrieve", key, pre, "raise",
                                    "FileNotFoundError", None)
                    /\ UNCHANGED <<dirs, disk, stored>>
               ELSE /\ disk' = [disk EXCEPT ![path] = Absent]
                    /\ stored' = [stored EXCEPT ![key] = None]
                    /\ lastOp' = Op("try_retrieve", key, pre, "return", "none", None)
                    /\ UNCHANGED dirs
          ELSE /\ lastOp' = Op("try_retrieve", key, pre, r.outcome, r.exc, r.value)
               /\ UNCHANGED <<dirs, disk, stored>>

\* "sometimes, corrupted data is written to disk": a writer that died, or a
\* writer of another format version, leaves content at the file's path
corrupt(key, content) ==
    /\ Parent(filename(key)) \in dirs
    /\ disk' = [disk EXCEPT ![filename(key)] = content]
    /\ stored' = [stored EXCEPT ![key] = None]
    /\ lastOp' = Op("corrupt", key, disk[filename(key)], "return", "none", None)
    /\ UNCHANGED dirs

----------------------------------------------------------------------------
(* Caches.register as a step of the registry *)

MaxRegister == 3

\* Caches.register(component)
register(component) ==
    LET r == registerOf(component, caches)
    IN /\ Len(calls) < MaxRegister
       /\ caches' = r.caches
       /\ lastReg' = [component |-> component, outcome |-> r.outcome, exc |-> r.exc,
                      value |-> r.value, before |-> caches]
       /\ calls' = Append(calls, [component |-> component, outcome |-> r.outcome,
                                  value |-> r.value])

----------------------------------------------------------------------------
(* The bounded in-memory cache (cached_mbtr.py) *)

MaxCacheSize == 2
MaxArgs == 3
MaxCalls == 4

DefaultCacheSize == 500

Unset == [set |-> FALSE]
SetTo(n) == [set |-> TRUE, value |-> n]

\* cache_size: int(os.environ['CML_CACHE_SIZE']) if set, else 500
cache_size(e) == IF e.set THEN e.value ELSE DefaultCacheSize

\* the distinct argument tuples the cached function is called with
ArgTuples == 1..MaxArgs

\* uncached.explicit_single_mbtr_with_norm(*args, mbtr_gen=explicit_single_mbtr)
uncached(args) == <<"mbtr", args>>

\* memcached(max_entries)(fn) called with args on memo table m: a hit returns
\* the stored result and marks the entry most recent; a miss runs fn, stores
\* the result and drops the least recent entries beyond max_entries
memcached(max_entries, m, args) ==
    IF args \in DictKeys(m)
    THEN [hit |-> TRUE, result |-> DictGet(m, args), ran |-> 0,
          memo |-> Append(SelectSeq(m, LAMBDA e : e[1] # args),
                          <<args, DictGet(m, args)>>)]
    ELSE LET grown == Append(m, <<args, uncached(args)>>)
             over == IF Len(grown) > max_entries THEN Len(grown) - max_entries ELSE 0
         IN [hit |-> FALSE, result |-> uncached(args), ran |-> 1,
             memo |-> SubSeq(grown, over + 1, Len(grown))]

\* variant of explicit_single_mbtr_with_norm: the function without its decorator
explicit_single_mbtr_with_norm_bare(m, args) ==
    [hit |-> FALSE, result |-> uncached(args), ran |-> 1, memo |-> m]

\* @memcached(max_entries=cache_size) def explicit_single_mbtr_with_norm(*args)
explicit_single_mbtr_with_norm(m, args) == memcached(cache_size(env), m, args)

\* one call of the cached function
CallCached(args) ==
    LET r == explicit_single_mbtr_with_norm(memo, args)
    IN /\ Len(argLog) < MaxCalls
       /\ memo' = r.memo
       /\ invoked' = invoked + r.ran
       /\ argLog' = Append(argLog, args)
       /\ lastCall' = [args |-> args, held |-> args \in DictKeys(memo),
                       result |-> r.result, before |-> invoked]
       /\ UNCHANGED env

\* CML_CACHE_SIZE is set in the environment before the module is imported
SetCacheSize(n) ==
    /\ env = Unset
    /\ argLog = <<>>
    /\ env' = SetTo(n)
    /\ UNCHANGED <<memo, invoked, argLog, lastCall>>

----------------------------------------------------------------------------
(* Dataset (dataset.py) *)

MaxSystems == 2
MaxAtoms == 2

\* one system of z: its atomic numbers; one system of r: the number of its
\* coordinate rows
Systems == UNION {[1..n -> {1}] : n \in 0..MaxAtoms}
Geometries == 0..MaxAtoms

List(v) == [t |-> "list", v |-> v]

ZValues == UNION {[1..n -> Systems] : n \in 0..MaxSystems}
RValues == UNION {[1..n -> Geometries] : n \in 0..MaxSystems}
BValues == {None} \cup {List([i \in 1..n |-> "cell"]) : n \in 0..MaxSystems}

Max(S) == CHOOSE x \in S : \A y \in S : y <= x

Raise(exc) == [outcome |-> "raise", exc |-> exc, value |-> None]

\* dataset_info(z, r, b): the info dict, or the first failure on the way
dataset_info(z, r, b) ==
    IF Len(z) # Len(r) THEN Raise("AssertionError")
    ELSE IF ~(b = None \/ Len(b.v) = Len(z)) THEN Raise("AssertionError")
    \* max() of an empty list
    ELSE IF Len(z) = 0 THEN Raise("ValueError")
    \* max(np.bincount(s)) of a system without atoms
    ELSE IF \E i \in 1..Len(z) : Len(z[i]) = 0 THEN Raise("ValueError")
    ELSE IF ~(Len(r) > 0) THEN Raise("AssertionError")
    \* min() of an empty list: no system has two atoms
    ELSE IF \A i \in 1..Len(r) : (r[i] * (r[i] - 1)) \div 2 = 0 THEN Raise("ValueError")
    ELSE [outcome |-> "return", exc |-> "none",
          value |-> [t |-> "info",
                     number_systems |-> Len(z),
                     max_elements_per_system |-> 1,
                     max_same_element_per_system |->
                         Max({Len(z[i]) : i \in 1..Len(z)}),
                     max_atoms_per_system |-> Max({Len(z[i]) : i \in 1..Len(z)})]]

\* the dataset of the tests: two systems of two atoms each, no basis
ReferenceZ == <<(<<1, 1>>), (<<1, 1>>)>>
ReferenceR == <<2, 2>>
ReferenceInfo == dataset_info(ReferenceZ, ReferenceR, None).value
ReferenceDict == [z |-> ReferenceZ, r |-> ReferenceR, b |-> None, info |-> ReferenceInfo]

\* the dicts from_dict is given: info is None or was computed beforehand
DatasetDicts == [z : ZValues, r : RValues, b : BValues, info : {None, ReferenceInfo}]

\* Dataset.__init__(name, z, r, b, p, info, desc, family)
DatasetInit(z, r, b, info) ==
    LET computed == dataset_info(z, r, b)
    IN IF info = None /\ computed.outcome = "raise" THEN computed
       ELSE LET used == IF info = None THEN computed.value ELSE info
            IN [outcome |-> "return", exc |-> "none",
                value |-> [t |-> "Dataset", z |-> z, r |-> r, b |-> b, info |-> used,
                           n |-> used.number_systems]]

\* Dataset.from_dict(d)
from_dict(d) ==
    LET res == DatasetInit(d.z, d.r, d.b, d.info)
    IN lastDataset' = [called |-> TRUE, d |-> d, outcome |-> res.outcome,
                       exc |-> res.exc, value |-> res.value]

----------------------------------------------------------------------------
(* store and try_retrieve of two processes on one cache directory *)

\* the key both processes use
RaceKey == <<"k">>

\* the artifacts the storing process stores: those a load gives back as
\* they were dumped (no field name holds the separator)
RaceArtifacts ==
    {a \in Artifacts : \A n \in DictKeys(a.data) : Len(Split(n, "/")) = 1}

\* what may be at the file's path when the two processes start
RaceStartContents == {Absent} \cup Unreadable \cup {dump(a) : a \in RaceArtifacts}

\* store, line 27: self.location.mkdir(parents=True, exist_ok=True)
StoreMkdir ==
    /\ wpc = "start"
    /\ dirs' = dirs \cup Ancestors(location)
    /\ wpc' = "open"
    /\ UNCHANGED <<disk, wdata, wlinked, rpc, rresult, rdeleted>>

\* store, line 28: np.savez opens the file for writing, which creates it or
\* cuts it to zero bytes
StoreOpen ==
    /\ wpc = "open"
    /\ Parent(filename(RaceKey)) \in dirs
    /\ disk' = [disk EXCEPT ![filename(RaceKey)] = Empty]
    /\ wlinked' = TRUE
    /\ wpc' = "write"
    /\ UNCHANGED <<dirs, wdata, rpc, rresult, rdeleted>>

\* store, line 28: np.savez writes the members; the archive has no end yet.
\* A file that was unlinked meanwhile is written to, but not at its path.
StoreWrite ==
    /\ wpc = "write"
    /\ disk' = IF wlinked THEN [disk EXCEPT ![filename(RaceKey)] = Truncated] ELSE disk
    /\ wpc' = "close"
    /\ UNCHANGED <<dirs, wdata, wlinked, rpc, rresult, rdeleted>>

\* store, line 28: np.savez writes the end of the archive and closes the file
StoreClose ==
    /\ wpc = "close"
    /\ disk' = IF wlinked THEN [disk EXCEPT ![filename(RaceKey)] = dump(wdata)] ELSE disk
    /\ wpc' = "done"
    /\ UNCHANGED <<dirs, wdata, wlinked, rpc, rresult, rdeleted>>

\* try_retrieve, lines 36 to 38: self.retrieve(key) and the except clause
TryLoad ==
    /\ rpc = "start"
    /\ \E r \in LoadOutcomes(disk[filename(RaceKey)]) :
          IF r.outcome = "raise" /\ IsCaught(r.exc)
          THEN rpc' = "unlink" /\ UNCHANGED rresult
          ELSE rpc' = "done" /\ rresult' = r
    /\ UNCHANGED <<dirs, disk, wpc, wdata, wlinked, rdeleted>>

\* try_retrieve, lines 39 to 43: filename.unlink() and return None
TryUnlink ==
    /\ rpc = "unlink"
    /\ IF disk[filename(RaceKey)].fmt = "absent"
       THEN /\ rresult' = Raise("FileNotFoundError")
            /\ UNCHANGED <<disk, wlinked, rdeleted>>
       ELSE /\ disk' = [disk EXCEPT ![filename(RaceKey)] = Absent]
            /\ rdeleted' = disk[filename(RaceKey)]
            /\ wlinked' = FALSE
            /\ rresult' = [outcome |-> "return", exc |-> "none", value |-> None]
    /\ rpc' = "done"
    /\ UNCHANGED <<dirs, wpc, wdata>>

----------------------------------------------------------------------------
(* Specifications *)

Init ==
    /\ dirs = {<<>>}
    /\ disk = [p \in FilePaths |-> Absent]
    /\ lastOp = Op("init", <<>>, Absent, "return", "none", None)
    /\ stored = [k \in Keys |-> None]
    /\ caches = <<>>
    /\ lastReg = [component |-> [kind |-> <<"f">>, hash |-> <<"h">>, context |-> <<>>],
                  outcome |-> "init", exc |-> "none", value |-> None, before |-> <<>>]
    /\ calls = <<>>
    /\ env = Unset
    /\ memo = <<>>
    /\ invoked = 0
    /\ argLog = <<>>
    /\ lastCall = [args |-> 0, held |-> FALSE, result |-> <<"mbtr", 0>>, before |-> 0]
    /\ lastDataset = [called |-> FALSE, d |-> ReferenceDict, outcome |-> "init",
                      exc |-> "none", value |-> None]
    /\ wpc = "idle"
    /\ wdata = None
    /\ wlinked = FALSE
    /\ rpc = "idle"
    /\ rresult = [outcome |-> "none", exc |-> "none", value |-> None]
    /\ rdeleted = None

NextDisk ==
    \/ \E key \in Keys : check(key) /\ UNCHANGED <<regVars, memVars, dsVars, raceVars>>
    \/ \E key \in Keys, data \in Artifacts :
          store(key, data) /\ UNCHANGED <<regVars, memVars, dsVars, raceVars>>
    \/ \E key \in Keys : retrieve(key) /\ UNCHANGED <<regVars, memVars, dsVars, raceVars>>
    \/ \E key \in Keys : try_retrieve(key) /\ UNCHANGED <<regVars, memVars, dsVars, raceVars>>
    \/ \E key \in Keys, content \in Unreadable \cup {Foreign} :
          corrupt(key, content) /\ UNCHANGED <<regVars, memVars, dsVars, raceVars>>

NextRegistry ==
    \E component \in Components : register(component) /\ UNCHANGED <<diskVars, memVars, dsVars, raceVars>>

\* both processes are about to start; the file is absent, left unreadable
\* by an earlier crash, or holds an earlier artifact
InitRace ==
    /\ \E content \in RaceStartContents :
          /\ disk = [p \in FilePaths |->
                        IF p = filename(RaceKey) THEN content ELSE Absent]
          /\ dirs = IF content = Absent THEN {<<>>} ELSE Ancestors(location)
    /\ lastOp = Op("init", <<>>, Absent, "return", "none", None)
    /\ stored = [k \in Keys |-> None]
    /\ caches = <<>>
    /\ lastReg = [component |-> [kind |-> <<"f">>, hash |-> <<"h">>, context |-> <<>>],
                  outcome |-> "init", exc |-> "none", value |-> None, before |-> <<>>]
    /\ calls = <<>>
    /\ env = Unset
    /\ memo = <<>>
    /\ invoked = 0
    /\ argLog = <<>>
    /\ lastCall = [args |-> 0, held |-> FALSE, result |-> <<"mbtr", 0>>, before |-> 0]
    /\ lastDataset = [called |-> FALSE, d |-> ReferenceDict, outcome |-> "init",
                      exc |-> "none", value |-> None]
    /\ wpc = "start"
    /\ wdata \in RaceArtifacts
    /\ wlinked = FALSE
    /\ rpc = "start"
    /\ rresult = [outcome |-> "none", exc |-> "none", value |-> None]
    /\ rdeleted = None

NextRace ==
    \/ StoreMkdir /\ UNCHANGED <<lastOp, stored, regVars, memVars, dsVars>>
    \/ StoreOpen /\ UNCHANGED <<lastOp, stored, regVars, memVars, dsVars>>
    \/ StoreWrite /\ UNCHANGED <<lastOp, stored, regVars, memVars, dsVars>>
    \/ StoreClose /\ UNCHANGED <<lastOp, stored, regVars, memVars, dsVars>>
    \/ TryLoad /\ UNCHANGED <<lastOp, stored, regVars, memVars, dsVars>>
    \/ TryUnlink /\ UNCHANGED <<lastOp, stored, regVars, memVars, dsVars>>

NextDataset ==
    \E d \in DatasetDicts :
        from_dict(d) /\ UNCHANGED <<diskVars, regVars, memVars, raceVars>>

NextMem ==
    \/ \E n \in 0..MaxCacheSize : SetCacheSize(n) /\ UNCHANGED <<diskVars, regVars, dsVars, raceVars>>
    \/ \E args \in ArgTuples : CallCached(args) /\ UNCHANGED <<diskVars, regVars, dsVars, raceVars>>

Next == NextDisk \/ NextRegistry \/ NextMem \/ NextDataset

\* the DiskCache under test, alone
SpecDisk == Init /\ [][NextDisk]_vars

\* the registry, alone
SpecRegistry == Init /\ [][NextRegistry]_vars

\* the in-memory cache, alone
SpecMem == Init /\ [][NextMem]_vars

\* Dataset.from_dict, alone
SpecDataset == Init /\ [][NextDataset]_vars

\* one store and one try_retrieve of two processes, interleaved
SpecRace == InitRace /\ [][NextRace]_vars

\* all of them together
Spec == Init /\ [][Next]_vars

----------------------------------------------------------------------------
(* Properties of DiskCache *)

IsUnreadable(content) == content.fmt \in {"garbage", "empty", "truncated"}

IsForeign(content) ==
    content.fmt = "npz" /\ DictGet(content.members, <<"protocol">>) # 1

\* C1: try_retrieve on a key whose file exists but cannot be deserialized
\* (garbage bytes, truncated file, premature end of data) returns None
\* without raising and removes the file, so that check(key) is false after it.
C1_SelfHeal ==
    (lastOp.op = "try_retrieve" /\ IsUnreadable(lastOp.pre))
        => /\ lastOp.outcome = "return"
           /\ lastOp.value = None
           /\ disk[filename(lastOp.key)].fmt = "absent"

\* C2: on a key with no file, check returns False, try_retrieve returns None
\* without raising, retrieve fails with a not-found error, and the file stays
\* absent.
C2_MissingKey ==
    (lastOp.op \in {"check", "retrieve", "try_retrieve"} /\ lastOp.pre.fmt = "absent")
        => /\ disk[filename(lastOp.key)].fmt = "absent"
           /\ lastOp.op = "check"
                => lastOp.outcome = "return" /\ lastOp.value = Bool(FALSE)
           /\ lastOp.op = "try_retrieve"
                => lastOp.outcome = "return" /\ lastOp.value = None
           /\ lastOp.op = "retrieve"
                => lastOp.outcome = "raise" /\ lastOp.exc = "FileNotFoundError"

\* C3: retrieve(key) returns an artifact equal in data, info and meta.history
\* to the artifact most recently stored under key, whatever was stored under
\* the same key before and under other keys since.
C3_RoundTrip ==
    (lastOp.op = "retrieve" /\ stored[lastOp.key].t = "Data")
        => /\ lastOp.outcome = "return"
           /\ ArtEq(lastOp.value, stored[lastOp.key])

\* C4: store(key, artifact) succeeds for every key, keys of the form
\* kind/hash included, on a cache whose location does not exist yet, and
\* check(key) is true after it.
C4_StoreCreatesDirectories ==
    lastOp.op = "store"
        => /\ lastOp.outcome = "return"
           /\ disk[filename(lastOp.key)].fmt # "absent"

\* C9: on a file whose protocol member is not 1, retrieve and try_retrieve
\* both fail with the assertion error, return no artifact, and leave the file
\* on disk as it was.
C9_ProtocolGuard ==
    (lastOp.op \in {"retrieve", "try_retrieve"} /\ IsForeign(lastOp.pre))
        => /\ lastOp.outcome = "raise"
           /\ lastOp.exc = "AssertionError"
           /\ lastOp.value = None
           /\ disk[filename(lastOp.key)] = lastOp.pre

\* try_retrieve has met a file of another protocol and raised
C9_Witness ==
    /\ lastOp.op = "try_retrieve"
    /\ IsForeign(lastOp.pre)
    /\ lastOp.outcome = "raise"

----------------------------------------------------------------------------
(* Properties of the registry *)

HasRun == lastReg.outcome # "init"

ConfigOf(component) == ContextGet(component.context, Str("no"))

\* caching is off: no cache entry, a falsy value, or the kind "no"
IsOff(component) ==
    \/ ~Truthy(ConfigOf(component))
    \/ ConfigOf(component) = Str("no")

IsDisk(component) == ConfigOf(component) = Str("disk")

IsUnsupported(component) ==
    /\ Truthy(ConfigOf(component))
    /\ ConfigOf(component).s \notin {"disk", "no"}

\* C5: for a component whose caching is off (no cache entry, "no", None,
\* False, ""), register returns a NoCache instance and leaves the registry
\* list unchanged.
C5_OffGivesNoCache ==
    (HasRun /\ IsOff(lastReg.component))
        => /\ lastReg.outcome = "return"
           /\ lastReg.value = NoCache
           /\ caches = lastReg.before

\* C6: with the disk configuration register returns a DiskCache rooted at
\* location/kind/hash, and two such calls resolve to the same path exactly
\* when their components have the same kind and the same hash.
C6_KeyUniqueness ==
    /\ \A i \in 1..Len(calls) :
          IsDisk(calls[i].component)
              => /\ calls[i].value.t = "DiskCache"
                 /\ calls[i].value.location =
                       RegistryLocation
                           \o <<calls[i].component.kind, calls[i].component.hash>>
    /\ \A i, j \in 1..Len(calls) :
          (calls[i].value.t = "DiskCache" /\ calls[j].value.t = "DiskCache")
              => ((/\ calls[i].component.kind = calls[j].component.kind
                   /\ calls[i].component.hash = calls[j].component.hash)
                     <=> calls[i].value.location = calls[j].value.location)

\* two components of the same kind and hash, and one that differs from them,
\* have each been given a DiskCache
C6_Witness ==
    \E i, j, k \in 1..Len(calls) :
        /\ i < j
        /\ calls[i].value.t = "DiskCache"
        /\ calls[j].value.t = "DiskCache"
        /\ calls[k].value.t = "DiskCache"
        /\ calls[i].component.kind = calls[j].component.kind
        /\ calls[i].component.hash = calls[j].component.hash
        /\ calls[k].component.kind # calls[i].component.kind
        /\ calls[k].value.location # calls[i].value.location

\* C7: for a component whose cache configuration names a kind other than
\* "disk" and "no", register raises the unsupported-kind error, returns no
\* cache and leaves the registry list as it was.
C7_UnsupportedKind ==
    (HasRun /\ IsUnsupported(lastReg.component))
        => /\ lastReg.outcome = "raise"
           /\ lastReg.exc = "NotImplementedError"
           /\ lastReg.value = None
           /\ caches = lastReg.before

\* an unsupported kind has been refused by a registry that holds entries
C7_Witness ==
    /\ HasRun
    /\ IsUnsupported(lastReg.component)
    /\ lastReg.outcome = "raise"
    /\ lastReg.before # <<>>

RECURSIVE EntriesOf(_)
\* one (description, key, cache) tuple per call that returned a DiskCache
EntriesOf(log) ==
    IF log = <<>> THEN <<>>
    ELSE LET c == Head(log)
         IN (IF c.outcome = "return" /\ c.value.t = "DiskCache"
             THEN << <<Describe(c.component), CacheKey(c.component), c.value>> >>
             ELSE <<>>) \o EntriesOf(Tail(log))

\* C8: the registry list holds exactly one tuple (description, key, cache)
\* per register call that returned a DiskCache, in call order; a call keeps
\* every earlier entry in place, and a call that returns NoCache or fails
\* adds nothing.
C8_AppendOnly ==
    /\ caches = EntriesOf(calls)
    /\ Len(lastReg.before) <= Len(caches)
    /\ SubSeq(caches, 1, Len(lastReg.before)) = lastReg.before
    /\ (HasRun /\ lastReg.value.t # "DiskCache") => caches = lastReg.before

\* two DiskCache registrations around a call that added nothing
C8_Witness ==
    /\ Len(calls) = 3
    /\ Len(caches) = 2
    /\ calls[2].value.t # "DiskCache"
    /\ caches[1] # caches[2]

----------------------------------------------------------------------------
(* Properties of the in-memory cache *)

RECURSIVE RecentDistinct(_, _)
\* the n most recently used distinct argument tuples of a call log
RecentDistinct(log, n) ==
    IF log = <<>> \/ n = 0 THEN {}
    ELSE LET last == log[Len(log)]
         IN {last} \cup RecentDistinct(SelectSeq(log, LAMBDA a : a # last), n - 1)

\* C10: with capacity N the memo table never holds more than N entries,
\* it holds the N most recently used argument tuples, a call is a hit
\* exactly for those and then returns the stored result without running the
\* wrapped function, and any other call (the first of N+1 distinct tuples
\* called again) runs the wrapped function.
C10_BoundedEviction ==
    LET N == cache_size(env)
        prior == SubSeq(argLog, 1, Len(argLog) - 1)
    IN /\ Len(memo) <= N
       /\ DictKeys(memo) = RecentDistinct(argLog, N)
       /\ argLog # <<>>
            => /\ lastCall.held <=> lastCall.args \in RecentDistinct(prior, N)
               /\ lastCall.result = uncached(lastCall.args)
               /\ lastCall.held => invoked = lastCall.before
               /\ ~lastCall.held => invoked = lastCall.before + 1

\* N+1 distinct tuples were called, then the first again, which missed, while
\* the table holds N entries
C10_Witness ==
    LET N == cache_size(env)
    IN /\ N >= 1
       /\ Len(argLog) = N + 2
       /\ Cardinality({argLog[i] : i \in 1..(N + 1)}) = N + 1
       /\ argLog[N + 2] = argLog[1]
       /\ ~lastCall.held
       /\ invoked = N + 2
       /\ Len(memo) = N

----------------------------------------------------------------------------
(* Properties of Dataset *)

SizesDiffer(d) ==
    \/ Len(d.z) # Len(d.r)
    \/ d.b # None /\ Len(d.b.v) # Len(d.z)
    \/ Len(d.r) = 0

\* C11: Dataset.from_dict(d) fails whenever z and r differ in their number of
\* entries, whenever b is given with a length other than that of z, and
\* whenever r is empty, also when d carries a precomputed info entry.
C11_SizeValidation ==
    (lastDataset.called /\ SizesDiffer(lastDataset.d))
        => lastDataset.outcome = "raise"

----------------------------------------------------------------------------
(* Properties of the two processes *)

\* C12: once the store and the try_retrieve of the two processes have both
\* finished, check(key) is true and retrieve(key) returns the stored artifact,
\* and a file that try_retrieve deleted was unreadable when it was deleted.
C12_FinishedStoreNotLost ==
    (wpc = "done" /\ rpc = "done")
        => /\ disk[filename(RaceKey)].fmt # "absent"
           /\ \A r \in LoadOutcomes(disk[filename(RaceKey)]) :
                 r.outcome = "return" /\ ArtEq(r.value, wdata)
           /\ rdeleted # None => IsUnreadable(rdeleted)

====
